---- MODULE Spec2Model ----
(***************************************************************************)
(* A model of the client-side daemon transport of pyre-check:              *)
(*   client/commands/v2/async_server_connection.py  (byte/text channels,   *)
(*                                                   connect scopes)       *)
(*   client/commands/daemon_query.py                (query envelope)       *)
(*                                                                         *)
(* The byte Reader is _StreamBytesReader, which hands read_until and       *)
(* read_exactly to asyncio.StreamReader.readuntil / readexactly.  Their    *)
(* loops are modelled step by step: one action per resumption of the       *)
(* coroutine, with the transport feeding the buffer in between.            *)
(***************************************************************************)
EXTENDS Integers, Sequences, FiniteSets, TLC

\* ------------------------------------------------------------------ bounds
\* Longest byte stream a peer sends in one behaviour.
MaxLen == 5
\* Largest count handed to read_exactly.
MaxCount == 6

\* asyncio's stream limit, which connect() leaves at its default (2**16) by
\* calling open_unix_connection without a limit.  The model scales it down so
\* that streams on both sides of it fit in MaxLen bytes.
Limit == 3

\* ------------------------------------------------------------------- bytes
NL == "\n"
Bytes == {"a", NL}

SeqsUpTo(S, n) == UNION {[1..k -> S] : k \in 0..n}

Streams == SeqsUpTo(Bytes, MaxLen)
\* Separators handed to read_until: one or two bytes (readuntil rejects b"").
Separators == SeqsUpTo(Bytes, 2) \ {<<>>}

\* b[:n] and b[n:] of a Python bytes object, n >= 0.
Take(b, n) == SubSeq(b, 1, IF n < Len(b) THEN n ELSE Len(b))
Drop(b, n) == SubSeq(b, n + 1, Len(b))

\* Whether sep occurs in b at 0-based index i.
OccursAt(b, sep, i) ==
    /\ i >= 0
    /\ i + Len(sep) <= Len(b)
    /\ SubSeq(b, i + 1, i + Len(sep)) = sep

\* bytearray.find(sep, offset): the lowest 0-based index >= offset at which
\* sep occurs in b, or -1.
Find(b, sep, offset) ==
    LET hits == {i \in offset..(Len(b) - Len(sep)) : OccursAt(b, sep, i)}
    IN  IF hits = {} THEN -1
        ELSE CHOOSE i \in hits : \A j \in hits : i <= j

\* ------------------------------------------------------------------- state
VARIABLES
    \* -- the byte Reader of one connection
    stream,     \* every byte the peer sends on this connection, in order
    wire,       \* the part of stream the transport has not delivered yet
    buffer,     \* StreamReader._buffer: delivered and unread
    eof,        \* StreamReader._eof
    rcall,      \* the read call in progress (op "none" when the Reader is idle)
    rres,       \* the last completed read call and its outcome
    returned,   \* concatenation of the data of the calls that returned
    allok,      \* no read call has failed so far
    \* -- one connect / connect_in_text_mode scope and the task that owns it
    cmode,      \* "bytes" (connect) or "text" (connect_in_text_mode)
    cpc,        \* where the owning task is
    writer,     \* connect's local `writer`: "None" or "constructed"
    transport,  \* the socket transport: "none", "open", "closing", "closed"
    closeCalls, \* how many times Writer.close() was invoked
    pending,    \* the exception travelling out of the scope body ("none")
    outcome,    \* what the caller of the scope observes once it has exited
    oserr,      \* the error open_unix_connection raised ("none")
    entered,    \* the scope body was entered
    cancelled,  \* the owner was cancelled while suspended in the body
    cancelReq,  \* Task.cancel() was called and CancelledError is not thrown yet
    outq,       \* units of output the transport holds and the kernel has not taken
    paused,     \* the protocol's pause_writing flag (drain suspends on it)
    wcalls,     \* the data of the Writer.write calls made, in call order
    handed,     \* the data units handed to the transport, in order
    closeReturned, \* Writer.close() has returned
    \* -- one response handed to Response.parse
    ptext,      \* the response text, as a sequence of JSON tokens
    psent,      \* the JSON value the peer serialized (t = "raw": none, free text)
    pres,       \* what Response.parse ended in
    \* -- one execute_query call
    qpc,        \* where the call is
    qquery,     \* query_text, as a sequence of characters
    qrequest,   \* raw_request, as a sequence of characters
    qconns,     \* how many connections the call has opened
    qlog,       \* the operations performed on its connection, in order
    qwritten,   \* the texts written on its connection, in order
    qraw,       \* raw_response, as a sequence of JSON tokens
    qresult,    \* what the call ended in
    qraised,    \* the transport operation that failed, and its error
    \* -- a TextWriter / TextReader pair over a channel whose peer echoes
    twritten,   \* the texts written through the TextWriter, in order
    tres,       \* what the last TextReader call ended in
    tlast,      \* the last TextReader call made, with its arguments
    \* -- a memory-backed Reader and a memory-backed Writer
    mdata,      \* the bytes the Reader is seeded with
    mcursor,    \* the Reader's cursor into them
    mres,       \* the last completed call of the Reader and its outcome
    mitems,     \* the Writer's items
    mcalls,     \* the data of the write calls made on the Writer, in order
    \* -- several connections, each opened and driven by a task of its own
    chan,       \* per connection: its stream, transport and StreamReader
    task        \* per task: where it is and what its calls gave it

readerVars == <<stream, wire, buffer, eof, rcall, rres, returned, allok>>

connVars == <<cmode, cpc, writer, transport, closeCalls, pending, outcome,
              oserr, entered, cancelled, cancelReq, outq, paused, wcalls,
              handed, closeReturned>>

parseVars == <<ptext, psent, pres>>

queryVars == <<qpc, qquery, qrequest, qconns, qlog, qwritten, qraw, qresult,
               qraised>>

textVars == <<twritten, tres, tlast>>

memVars == <<mdata, mcursor, mres, mitems, mcalls>>

taskVars == <<chan, task>>

vars == <<readerVars, connVars, parseVars, queryVars, textVars, memVars,
         taskVars>>

NoCall == [op |-> "none", sep |-> <<>>, count |-> 0, start |-> 0, offset |-> 0]
NoRes  == [op |-> "none", sep |-> <<>>, count |-> 0, start |-> 0,
           kind |-> "none", data |-> <<>>]

\* Bytes taken out of the buffer so far (the Reader's cursor into stream).
Consumed == Len(stream) - Len(buffer) - Len(wire)

\* The unread part of the stream when the cursor is at n.
Unread(n) == Drop(stream, n)

\* A connection whose peer sends the bytes of s.
ReaderOver(s) ==
    /\ stream = s
    /\ wire = stream
    /\ buffer = <<>>
    /\ eof = FALSE
    /\ rcall = NoCall
    /\ rres = NoRes
    /\ returned = <<>>
    /\ allok = TRUE

\* ------------------------------------------------------- transport -> buffer
\* StreamReaderProtocol.data_received -> StreamReader.feed_data: the next k
\* bytes of the stream arrive, in whatever chunks the transport cuts.
feed_data(k) ==
    /\ k \in 1..Len(wire)
    /\ buffer' = buffer \o Take(wire, k)
    /\ wire' = Drop(wire, k)
    /\ UNCHANGED <<stream, eof, rcall, rres, returned, allok>>
    /\ UNCHANGED <<connVars, parseVars, queryVars, textVars,
                   memVars, taskVars>>

\* StreamReaderProtocol.eof_received -> StreamReader.feed_eof.
feed_eof ==
    /\ wire = <<>>
    /\ ~eof
    /\ eof' = TRUE
    /\ UNCHANGED <<stream, wire, buffer, rcall, rres, returned, allok>>
    /\ UNCHANGED <<connVars, parseVars, queryVars, textVars,
                   memVars, taskVars>>

\* --------------------------------------------------------------- read loops
\* A readuntil that leaves the partial data in the buffer when it raises
\* IncompleteReadError.
ReadUntilPass_KeepsPartial(c, b, e) ==
    LET seplen == Len(c.sep)
        buflen == Len(b)
        fits   == buflen - c.offset >= seplen
        isep   == IF fits THEN Find(b, c.sep, c.offset) ELSE -1
        offset == IF fits /\ isep = -1 THEN buflen + 1 - seplen ELSE c.offset
    IN  IF isep # -1
        THEN IF isep > Limit
             THEN [kind |-> "LimitOverrun", data |-> <<>>, buf |-> b,
                   offset |-> offset]
             ELSE [kind |-> "ret", data |-> Take(b, isep + seplen),
                   buf |-> Drop(b, isep + seplen), offset |-> offset]
        ELSE IF fits /\ offset > Limit
        THEN [kind |-> "LimitOverrun", data |-> <<>>, buf |-> b,
              offset |-> offset]
        ELSE IF e
        THEN [kind |-> "IncompleteRead", data |-> b, buf |-> b,
              offset |-> offset]
        ELSE [kind |-> "wait", data |-> <<>>, buf |-> b, offset |-> offset]

\* One pass of StreamReader.readuntil's loop over the buffer as it stands,
\* for the call c: what the pass ends in.
\*   kind "ret"            return data, buffer left as buf
\*   kind "IncompleteRead" raise IncompleteReadError(partial = data)
\*   kind "LimitOverrun"   raise LimitOverrunError
\*   kind "wait"           suspend in _wait_for_data with the new offset
ReadUntilPass(c, b, e) ==
    LET seplen == Len(c.sep)
        buflen == Len(b)
        fits   == buflen - c.offset >= seplen
        isep   == IF fits THEN Find(b, c.sep, c.offset) ELSE -1
        offset == IF fits /\ isep = -1 THEN buflen + 1 - seplen ELSE c.offset
    IN  IF isep # -1
        THEN IF isep > Limit
             THEN [kind |-> "LimitOverrun", data |-> <<>>, buf |-> b,
                   offset |-> offset]
             ELSE [kind |-> "ret", data |-> Take(b, isep + seplen),
                   buf |-> Drop(b, isep + seplen), offset |-> offset]
        ELSE IF fits /\ offset > Limit
        THEN [kind |-> "LimitOverrun", data |-> <<>>, buf |-> b,
              offset |-> offset]
        ELSE IF e
        THEN [kind |-> "IncompleteRead", data |-> b, buf |-> <<>>,
              offset |-> offset]
        ELSE [kind |-> "wait", data |-> <<>>, buf |-> b, offset |-> offset]

\* A readexactly that returns the bytes and leaves them in the buffer.
ReadExactlyPass_NoConsume(c, b, e) ==
    IF Len(b) < c.count
    THEN IF e
         THEN [kind |-> "IncompleteRead", data |-> b, buf |-> <<>>,
               offset |-> 0]
         ELSE [kind |-> "wait", data |-> <<>>, buf |-> b, offset |-> 0]
    ELSE [kind |-> "ret", data |-> Take(b, c.count), buf |-> b, offset |-> 0]

\* A readexactly that, like read(n), returns what there is at end-of-stream.
ReadExactlyPass_ShortAtEof(c, b, e) ==
    IF Len(b) < c.count /\ ~e
    THEN [kind |-> "wait", data |-> <<>>, buf |-> b, offset |-> 0]
    ELSE [kind |-> "ret", data |-> Take(b, c.count),
          buf |-> Drop(b, c.count), offset |-> 0]

\* A readexactly that looks for end-of-stream before it looks at the count.
ReadExactlyPass_EofFirst(c, b, e) ==
    IF e /\ b = <<>>
    THEN [kind |-> "IncompleteRead", data |-> <<>>, buf |-> <<>>, offset |-> 0]
    ELSE IF Len(b) < c.count
    THEN IF e
         THEN [kind |-> "IncompleteRead", data |-> b, buf |-> <<>>,
               offset |-> 0]
         ELSE [kind |-> "wait", data |-> <<>>, buf |-> b, offset |-> 0]
    ELSE [kind |-> "ret", data |-> Take(b, c.count),
          buf |-> Drop(b, c.count), offset |-> 0]

\* One pass of StreamReader.readexactly's loop.
ReadExactlyPass(c, b, e) ==
    IF c.count = 0
    THEN [kind |-> "ret", data |-> <<>>, buf |-> b, offset |-> 0]
    ELSE IF Len(b) < c.count
    THEN IF e
         THEN [kind |-> "IncompleteRead", data |-> b, buf |-> <<>>,
               offset |-> 0]
         ELSE [kind |-> "wait", data |-> <<>>, buf |-> b, offset |-> 0]
    ELSE [kind |-> "ret", data |-> Take(b, c.count),
          buf |-> Drop(b, c.count), offset |-> 0]

\* A readline without its except clause.
CatchIncomplete_Propagates(r) == r

\* BytesReader.readline's `except asyncio.IncompleteReadError as error:
\* return error.partial` around a read_until that ended in r.
CatchIncomplete(r) ==
    IF r.kind = "IncompleteRead" THEN [r EXCEPT !.kind = "ret"] ELSE r

\* BytesReader.readline: read_until(b"\n"), with IncompleteReadError caught
\* and its partial data returned.  Any other failure propagates.
ReadlinePass(c, b, e) == CatchIncomplete(ReadUntilPass(c, b, e))

Pass(c, b, e) ==
    CASE c.op = "read_until"   -> ReadUntilPass(c, b, e)
      [] c.op = "read_exactly" -> ReadExactlyPass(c, b, e)
      [] c.op = "readline"     -> ReadlinePass(c, b, e)

\* The coroutine of call c runs until its next suspension or its end: what
\* that does to the Reader.
RunReader(c) ==
    LET r == Pass(c, buffer, eof)
    IN  /\ buffer' = r.buf
        /\ IF r.kind = "wait"
           THEN /\ rcall' = [c EXCEPT !.offset = r.offset]
                /\ UNCHANGED <<rres, returned, allok>>
           ELSE /\ rcall' = NoCall
                /\ rres' = [op |-> c.op, sep |-> c.sep, count |-> c.count,
                            start |-> c.start, kind |-> r.kind,
                            data |-> r.data]
                /\ returned' = IF r.kind = "ret" THEN returned \o r.data
                               ELSE returned
                /\ allok' = (allok /\ r.kind = "ret")
        /\ UNCHANGED <<stream, wire, eof>>

\* A call made on the byte Reader itself.
Run(c) ==
    /\ RunReader(c)
    /\ UNCHANGED <<connVars, parseVars, queryVars, textVars,
                   memVars, taskVars>>

\* _StreamBytesReader.read_until(separator)
read_until(sep) ==
    /\ rcall.op = "none"
    /\ Run([op |-> "read_until", sep |-> sep, count |-> 0,
            start |-> Consumed, offset |-> 0])

\* _StreamBytesReader.read_exactly(count)
read_exactly(count) ==
    /\ rcall.op = "none"
    /\ Run([op |-> "read_exactly", sep |-> <<>>, count |-> count,
            start |-> Consumed, offset |-> 0])

\* BytesReader.readline()
readline ==
    /\ rcall.op = "none"
    /\ Run([op |-> "readline", sep |-> <<NL>>, count |-> 0,
            start |-> Consumed, offset |-> 0])

\* _wait_for_data returns (data or end-of-stream arrived) and the suspended
\* call goes round its loop again.
resume ==
    /\ rcall.op # "none"
    /\ Run(rcall)

NextReader ==
    \/ \E k \in 1..MaxLen : feed_data(k)
    \/ feed_eof
    \/ \E sep \in Separators : read_until(sep)
    \/ \E count \in 0..MaxCount : read_exactly(count)
    \/ readline
    \/ resume

\* -------------------------------------------------------- connect scopes
\* Units of output the transport may hold at once in the model.
MaxOut == 2

OSErrors == {"FileNotFoundError", "ConnectionRefusedError"}
BodyErrors == {"IncompleteReadError", "ConnectionResetError"}
Modes == {"bytes", "text"}

\* No scope has been opened.
ConnIdle ==
    /\ cmode = "bytes"
    /\ cpc = "idle"
    /\ writer = "None"
    /\ transport = "none"
    /\ closeCalls = 0
    /\ pending = "none"
    /\ outcome = "none"
    /\ oserr = "none"
    /\ entered = FALSE
    /\ cancelled = FALSE
    /\ cancelReq = FALSE
    /\ outq = 0
    /\ paused = FALSE
    /\ wcalls = <<>>
    /\ handed = <<>>
    /\ closeReturned = FALSE

\* The body of the scope is running (or suspended in one of its awaits).
InBody == cpc \in {"body", "in_read", "in_write"}

\* A connect that closes after the yield without a finally clause.
FinallyCloses_OnReturnOnly(w, exc) == w # "None" /\ exc = "none"

\* A connect that cleans up in `except Exception`, which CancelledError
\* (a BaseException) passes by.
FinallyCloses_NotOnCancel(w, exc) == w # "None" /\ exc # "CancelledError"

\* connect's finally clause: `if writer is not None: await writer.close()`,
\* whatever exception exc ("none": a normal return) is leaving the try block.
FinallyCloses(w, exc) == w # "None"

\* A connect that turns the errors of open_unix_connection into its own.
Propagates_Wrapped(exc) ==
    IF exc = "none" THEN "returned"
    ELSE IF exc \in OSErrors THEN "ConnectionError"
    ELSE exc

\* A connect whose finally clause ends in a return, which drops the exception
\* on its way out.
Propagates_Swallowing(exc) == "returned"

\* What leaves the generator once the finally clause is done: the exception
\* that entered it, re-raised as it is, or a normal end.
Propagates(exc) == IF exc = "none" THEN "returned" ELSE exc

\* Control leaves connect's try block with exc: the finally clause runs, up to
\* the first suspension of `await writer.close()`, that is
\* _StreamBytesWriter.close: stream_writer.close(), then wait_closed().
ScopeExit(exc) ==
    IF FinallyCloses(writer, exc)
    THEN /\ closeCalls' = closeCalls + 1
         /\ transport' = IF transport = "open" THEN "closing" ELSE transport
         /\ pending' = exc
         /\ cpc' = "wait_closed"
         /\ UNCHANGED outcome
    ELSE /\ cpc' = "exited"
         /\ outcome' = Propagates(exc)
         /\ UNCHANGED <<closeCalls, transport, pending>>

\* `async with connect(path)` / `async with connect_in_text_mode(path)`: the
\* generator starts and suspends in open_unix_connection.  The text scope is
\* a generator around `async with connect(...)`: it enters and leaves through
\* connect's generator and only wraps the pair it yields.
connect(m) ==
    /\ cpc = "idle"
    /\ cmode' = m
    /\ cpc' = "opening"
    /\ UNCHANGED <<writer, transport, closeCalls, pending, outcome, oserr,
                   entered, cancelled, cancelReq, outq, paused>>
    /\ UNCHANGED <<wcalls, handed, closeReturned>>
    /\ UNCHANGED <<readerVars, parseVars, queryVars, textVars,
                   memVars, taskVars>>

\* open_unix_connection returns: reader and writer are constructed and
\* yielded, and the body starts.
open_ok ==
    /\ cpc = "opening"
    /\ ~cancelReq
    /\ writer' = "constructed"
    /\ transport' = "open"
    /\ entered' = TRUE
    /\ cpc' = "body"
    /\ UNCHANGED <<cmode, closeCalls, pending, outcome, oserr, cancelled,
                   cancelReq, outq, paused>>
    /\ UNCHANGED <<wcalls, handed, closeReturned>>
    /\ UNCHANGED <<readerVars, parseVars, queryVars, textVars,
                   memVars, taskVars>>

\* open_unix_connection raises the OS error e.
open_fails(e) ==
    /\ cpc = "opening"
    /\ ~cancelReq
    /\ oserr' = e
    /\ ScopeExit(e)
    /\ UNCHANGED <<cmode, writer, entered, cancelled, cancelReq, outq, paused>>
    /\ UNCHANGED <<wcalls, handed, closeReturned>>
    /\ UNCHANGED <<readerVars, parseVars, queryVars, textVars,
                   memVars, taskVars>>

\* The body awaits a read that has to wait for data.
body_read ==
    /\ cpc = "body"
    /\ cpc' = "in_read"
    /\ UNCHANGED <<cmode, writer, transport, closeCalls, pending, outcome,
                   oserr, entered, cancelled, cancelReq, outq, paused>>
    /\ UNCHANGED <<wcalls, handed, closeReturned>>
    /\ UNCHANGED <<readerVars, parseVars, queryVars, textVars,
                   memVars, taskVars>>

\* The awaited read completes.
read_done ==
    /\ cpc = "in_read"
    /\ ~cancelReq
    /\ cpc' = "body"
    /\ UNCHANGED <<cmode, writer, transport, closeCalls, pending, outcome,
                   oserr, entered, cancelled, cancelReq, outq, paused>>
    /\ UNCHANGED <<wcalls, handed, closeReturned>>
    /\ UNCHANGED <<readerVars, parseVars, queryVars, textVars,
                   memVars, taskVars>>

\* Most Writer.write calls in one scope.
MaxCalls == 2
\* The data handed to Writer.write.
Datas == {<<"a">>, <<NL>>}

\* A Writer that gathers what it is given into one unit.
TransportWrite_Merged(units, data) ==
    IF units = <<>> THEN <<data>>
    ELSE Append(SubSeq(units, 1, Len(units) - 1), units[Len(units)] \o data)

\* stream_writer.write(data): one transport.write(data) per call, after the
\* units handed over before.
TransportWrite(units, data) == Append(units, data)

\* _StreamBytesWriter.write: stream_writer.write(data) hands the data to the
\* transport, which passes it to the kernel at once (buffered = FALSE, only
\* with nothing queued before it) or queues it, and calls pause_writing when
\* the queue passes its high-water mark (over); then drain() suspends while
\* the protocol is paused.
write(data, buffered, over) ==
    /\ cpc = "body"
    /\ Len(wcalls) < MaxCalls
    /\ (outq > 0) => buffered
    /\ buffered => outq < MaxOut
    /\ over => buffered
    /\ wcalls' = Append(wcalls, data)
    /\ handed' = TransportWrite(handed, data)
    /\ outq' = IF buffered THEN outq + 1 ELSE outq
    /\ paused' = (paused \/ over)
    /\ cpc' = IF paused' THEN "in_write" ELSE "body"
    /\ UNCHANGED <<cmode, writer, transport, closeCalls, pending, outcome,
                   oserr, entered, cancelled, cancelReq, closeReturned>>
    /\ UNCHANGED <<readerVars, parseVars, queryVars, textVars,
                   memVars, taskVars>>

\* The kernel takes one queued unit; the transport resumes the protocol once
\* what is left is no more than its low-water mark (low), an empty queue at
\* the latest.
flush(low) ==
    /\ outq > 0
    /\ outq' = outq - 1
    /\ paused' = (paused /\ outq' > 0 /\ ~low)
    /\ UNCHANGED <<cmode, cpc, writer, transport, closeCalls, pending,
                   outcome, oserr, entered, cancelled, cancelReq>>
    /\ UNCHANGED <<wcalls, handed, closeReturned>>
    /\ UNCHANGED <<readerVars, parseVars, queryVars, textVars,
                   memVars, taskVars>>

\* drain() returns once the protocol is resumed.
drain_done ==
    /\ cpc = "in_write"
    /\ ~paused
    /\ ~cancelReq
    /\ cpc' = "body"
    /\ UNCHANGED <<cmode, writer, transport, closeCalls, pending, outcome,
                   oserr, entered, cancelled, cancelReq, outq, paused>>
    /\ UNCHANGED <<wcalls, handed, closeReturned>>
    /\ UNCHANGED <<readerVars, parseVars, queryVars, textVars,
                   memVars, taskVars>>

\* The body runs to its end.
body_returns ==
    /\ cpc = "body"
    /\ ScopeExit("none")
    /\ UNCHANGED <<cmode, writer, oserr, entered, cancelled, cancelReq, outq,
                   paused>>
    /\ UNCHANGED <<wcalls, handed, closeReturned>>
    /\ UNCHANGED <<readerVars, parseVars, queryVars, textVars,
                   memVars, taskVars>>

\* The body raises e, from its own code or out of a read or a write.
body_raises(e) ==
    /\ InBody
    /\ ~cancelReq
    /\ ScopeExit(e)
    /\ UNCHANGED <<cmode, writer, oserr, entered, cancelled, cancelReq, outq,
                   paused>>
    /\ UNCHANGED <<wcalls, handed, closeReturned>>
    /\ UNCHANGED <<readerVars, parseVars, queryVars, textVars,
                   memVars, taskVars>>

\* Task.cancel() on the owner while it is suspended in an await.
cancel ==
    /\ cpc \in {"opening", "in_read", "in_write", "wait_closed"}
    /\ ~cancelReq
    /\ cancelReq' = TRUE
    /\ cancelled' = (cancelled \/ cpc \in {"in_read", "in_write"})
    /\ UNCHANGED <<cmode, cpc, writer, transport, closeCalls, pending, outcome,
                   oserr, entered, outq, paused>>
    /\ UNCHANGED <<wcalls, handed, closeReturned>>
    /\ UNCHANGED <<readerVars, parseVars, queryVars, textVars,
                   memVars, taskVars>>

\* The event loop throws CancelledError into the owner at its await: in
\* open_unix_connection or in the body it leaves the try block; in
\* wait_closed it leaves the finally clause, replacing what was pending.
throw_cancelled ==
    /\ cancelReq
    /\ cancelReq' = FALSE
    /\ IF cpc = "wait_closed"
       THEN /\ cpc' = "exited"
            /\ outcome' = "CancelledError"
            /\ UNCHANGED <<closeCalls, transport, pending>>
       ELSE ScopeExit("CancelledError")
    /\ UNCHANGED <<cmode, writer, oserr, entered, cancelled, outq, paused>>
    /\ UNCHANGED <<wcalls, handed, closeReturned>>
    /\ UNCHANGED <<readerVars, parseVars, queryVars, textVars,
                   memVars, taskVars>>

\* The event loop finishes closing the transport (connection_lost), once
\* the output queued before close() is flushed.
connection_lost ==
    /\ transport = "closing"
    /\ outq = 0
    /\ transport' = "closed"
    /\ UNCHANGED <<cmode, cpc, writer, closeCalls, pending, outcome, oserr,
                   entered, cancelled, cancelReq, outq, paused>>
    /\ UNCHANGED <<wcalls, handed, closeReturned>>
    /\ UNCHANGED <<readerVars, parseVars, queryVars, textVars,
                   memVars, taskVars>>

\* A close that does not wait for the transport: stream_writer.close() and
\* nothing after it.
ClosedAcknowledged_NoWait(t) == t \in {"closing", "closed"}

\* `await self.stream_writer.wait_closed()` is over: the protocol's
\* connection_lost has run.
ClosedAcknowledged(t) == t = "closed"

\* wait_closed() returns, writer.close() returns, the finally clause ends.
wait_closed_returns ==
    /\ cpc = "wait_closed"
    /\ ClosedAcknowledged(transport)
    /\ ~cancelReq
    /\ cpc' = "exited"
    /\ closeReturned' = TRUE
    /\ outcome' = Propagates(pending)
    /\ UNCHANGED <<cmode, writer, transport, closeCalls, pending, oserr,
                   entered, cancelled, cancelReq, outq, paused>>
    /\ UNCHANGED <<wcalls, handed>>
    /\ UNCHANGED <<readerVars, parseVars, queryVars, textVars,
                   memVars, taskVars>>

NextConn ==
    \/ \E m \in Modes : connect(m)
    \/ open_ok
    \/ \E e \in OSErrors : open_fails(e)
    \/ body_read
    \/ read_done
    \/ \E data \in Datas : \E buffered, over \in BOOLEAN :
        write(data, buffered, over)
    \/ \E low \in BOOLEAN : flush(low)
    \/ drain_done
    \/ body_returns
    \/ \E e \in BodyErrors : body_raises(e)
    \/ cancel
    \/ throw_cancelled
    \/ connection_lost
    \/ wait_closed_returns

\* ------------------------------------------------------- query responses
\* Longest free (not generated from a JSON value) response text, in tokens.
MaxTokens == 4
\* Longest array of scalars a generated response holds.
MaxElems == 3

\* A response text is a sequence of JSON tokens (white space left out): the
\* six punctuators, two string literals, a number, and a word that is no
\* JSON literal.
QueryTok == "\"Query\""
NotTok == "\"not\""
StrToks == {QueryTok, NotTok}
Tokens == {"[", "]", "{", "}", ",", ":", QueryTok, NotTok, "1", "nope"}

\* The Python string a JSON string literal decodes to.
Unquote(tok) == IF tok = QueryTok THEN "Query" ELSE "not"

\* Decoded JSON values: Python str, int, list and dict (as its items, in
\* insertion order, each a key with its value).
Str(x) == [t |-> "str", s |-> x, items |-> <<>>]
Num == [t |-> "num", s |-> "1", items |-> <<>>]
Arr(xs) == [t |-> "arr", s |-> "", items |-> xs]
Obj(kvs) == [t |-> "obj", s |-> "", items |-> kvs]
Pair(k, v) == [t |-> "pair", s |-> k, items |-> <<v>>]
NoValue == [t |-> "none", s |-> "", items |-> <<>>]
Raw == [t |-> "raw", s |-> "", items |-> <<>>]

\* d[k] = v on a Python dict: a key already there keeps its place.
DictSet(kvs, k, v) ==
    IF \E i \in 1..Len(kvs) : kvs[i].s = k
    THEN [i \in 1..Len(kvs) |-> IF kvs[i].s = k THEN Pair(k, v) ELSE kvs[i]]
    ELSE Append(kvs, Pair(k, v))

Decoded(v, next) == [ok |-> TRUE, val |-> v, next |-> next, msg |-> ""]
\* JSONDecodeError(msg, doc, pos): pos is the 0-based index of the token.
DecodeError(msg, i) == [ok |-> FALSE, val |-> NoValue, next |-> i, msg |-> msg]

At(text, i, tok) == i <= Len(text) /\ text[i] = tok
StrAt(text, i) == i <= Len(text) /\ text[i] \in StrToks

RECURSIVE scan_once(_, _), JSONArray(_, _, _), JSONObject(_, _, _)

\* json.scanner.py_make_scanner._scan_once at token i of text.
scan_once(text, i) ==
    IF i > Len(text) THEN DecodeError("Expecting value", i)
    ELSE IF text[i] \in StrToks THEN Decoded(Str(Unquote(text[i])), i + 1)
    ELSE IF text[i] = "{" THEN
        IF StrAt(text, i + 1) THEN JSONObject(text, i + 1, <<>>)
        ELSE IF At(text, i + 1, "}") THEN Decoded(Obj(<<>>), i + 2)
        ELSE DecodeError(
                "Expecting property name enclosed in double quotes", i + 1)
    ELSE IF text[i] = "[" THEN
        IF At(text, i + 1, "]") THEN Decoded(Arr(<<>>), i + 2)
        ELSE JSONArray(text, i + 1, <<>>)
    ELSE IF text[i] = "1" THEN Decoded(Num, i + 1)
    ELSE DecodeError("Expecting value", i)

\* json.decoder.JSONArray's loop, at the value starting at token i.
JSONArray(text, i, values) ==
    LET r == scan_once(text, i)
    IN  IF ~r.ok THEN r
        ELSE IF At(text, r.next, "]")
        THEN Decoded(Arr(Append(values, r.val)), r.next + 1)
        ELSE IF At(text, r.next, ",")
        THEN JSONArray(text, r.next + 1, Append(values, r.val))
        ELSE DecodeError("Expecting ',' delimiter", r.next)

\* json.decoder.JSONObject's loop, at the key at token i.
JSONObject(text, i, pairs) ==
    IF ~At(text, i + 1, ":")
    THEN DecodeError("Expecting ':' delimiter", i + 1)
    ELSE LET r == scan_once(text, i + 2)
             kvs == DictSet(pairs, Unquote(text[i]), r.val)
         IN  IF ~r.ok THEN r
             ELSE IF At(text, r.next, "}")
             THEN Decoded(Obj(kvs), r.next + 1)
             ELSE IF At(text, r.next, ",")
             THEN IF StrAt(text, r.next + 1)
                  THEN JSONObject(text, r.next + 1, kvs)
                  ELSE DecodeError(
                        "Expecting property name enclosed in double quotes",
                        r.next + 1)
             ELSE DecodeError("Expecting ',' delimiter", r.next)

\* json.loads(response_text): one value, and nothing after it.
loads(text) ==
    LET r == scan_once(text, 1)
    IN  IF r.ok /\ r.next <= Len(text)
        THEN DecodeError("Extra data", r.next)
        ELSE r

RECURSIVE PyRepr(_), PyReprItems(_, _)

\* repr() of a decoded value: Python notation, strings in single quotes.
PyRepr(v) ==
    CASE v.t = "str"  -> <<"'" \o v.s \o "'">>
      [] v.t = "num"  -> <<"1">>
      [] v.t = "arr"  -> <<"[">> \o PyReprItems(v.items, 1) \o <<"]">>
      [] v.t = "obj"  -> <<"{">> \o PyReprItems(v.items, 1) \o <<"}">>
      [] v.t = "pair" -> <<"'" \o v.s \o "'", ":">> \o PyRepr(v.items[1])

PyReprItems(xs, i) ==
    IF i > Len(xs) THEN <<>>
    ELSE PyRepr(xs[i]) \o (IF i < Len(xs) THEN <<",">> ELSE <<>>)
         \o PyReprItems(xs, i + 1)

\* str(response_json), as the f-string of from_json renders the decoded
\* value: a string as its bare characters, anything else as its repr.
PyStr(v) == IF v.t = "str" THEN <<v.s>> ELSE PyRepr(v)

NoResult == [kind |-> "none", payload |-> NoValue, prefix |-> "",
             arg |-> <<>>, chained |-> FALSE, doc |-> <<>>]

\* A from_json that takes the envelope to have exactly two elements.
from_json_ExactlyTwo(response_json) ==
    IF /\ response_json.t = "arr"
       /\ Len(response_json.items) = 2
       /\ response_json.items[1] = Str("Query")
    THEN [kind |-> "Response", payload |-> response_json.items[2],
          prefix |-> "", arg |-> <<>>, chained |-> FALSE, doc |-> <<>>]
    ELSE [kind |-> "InvalidQueryResponse", payload |-> NoValue,
          prefix |-> "Unexpected JSON response from server: ",
          arg |-> PyStr(response_json), chained |-> FALSE, doc |-> <<>>]

\* A from_json that takes the payload from the head of the envelope.
from_json_ReturnsTag(response_json) ==
    IF /\ response_json.t = "arr"
       /\ Len(response_json.items) > 1
       /\ response_json.items[1] = Str("Query")
    THEN [kind |-> "Response", payload |-> response_json.items[1],
          prefix |-> "", arg |-> <<>>, chained |-> FALSE, doc |-> <<>>]
    ELSE [kind |-> "InvalidQueryResponse", payload |-> NoValue,
          prefix |-> "Unexpected JSON response from server: ",
          arg |-> PyStr(response_json), chained |-> FALSE, doc |-> <<>>]

\* A from_json that takes any array of two or more elements for an envelope.
from_json_AnyTag(response_json) ==
    IF /\ response_json.t = "arr"
       /\ Len(response_json.items) > 1
    THEN [kind |-> "Response", payload |-> response_json.items[2],
          prefix |-> "", arg |-> <<>>, chained |-> FALSE, doc |-> <<>>]
    ELSE [kind |-> "InvalidQueryResponse", payload |-> NoValue,
          prefix |-> "Unexpected JSON response from server: ",
          arg |-> PyStr(response_json), chained |-> FALSE, doc |-> <<>>]

\* Response.from_json(response_json)
from_json(response_json) ==
    IF /\ response_json.t = "arr"
       /\ Len(response_json.items) > 1
       /\ response_json.items[1] = Str("Query")
    THEN [kind |-> "Response", payload |-> response_json.items[2],
          prefix |-> "", arg |-> <<>>, chained |-> FALSE, doc |-> <<>>]
    ELSE [kind |-> "InvalidQueryResponse", payload |-> NoValue,
          prefix |-> "Unexpected JSON response from server: ",
          arg |-> PyStr(response_json), chained |-> FALSE, doc |-> <<>>]

\* A parse that raises InvalidQueryResponse without `from decode_error`.
parse_text_Unchained(response_text) ==
    LET response_json == loads(response_text)
    IN  IF response_json.ok
        THEN from_json(response_json.val)
        ELSE [kind |-> "InvalidQueryResponse", payload |-> NoValue,
              prefix |-> "Cannot parse response as JSON: ",
              arg |-> <<response_json.msg, ToString(response_json.next - 1)>>,
              chained |-> FALSE, doc |-> <<>>]

\* Response.parse(response_text); a JSONDecodeError becomes an
\* InvalidQueryResponse whose message holds str(decode_error) (the decoder's
\* message and position) and whose __cause__ is the decode error, with the
\* text it was decoding as its doc.
parse_text(response_text) ==
    LET response_json == loads(response_text)
    IN  IF response_json.ok
        THEN from_json(response_json.val)
        ELSE [kind |-> "InvalidQueryResponse", payload |-> NoValue,
              prefix |-> "Cannot parse response as JSON: ",
              arg |-> <<response_json.msg, ToString(response_json.next - 1)>>,
              chained |-> TRUE, doc |-> response_text]

\* The JSON values a peer may answer with.
Scalars == {Str("Query"), Str("not"), Num}
SmallObjects ==
    {Obj(<<>>)} \cup {Obj(<<Pair(k, v)>>) : k \in {"Query", "not"}, v \in Scalars}
Nested ==
    Scalars \cup {Arr(<<>>)} \cup {Arr(<<v>>) : v \in Scalars} \cup SmallObjects
Values ==
    Nested
    \cup {Arr(xs) : xs \in SeqsUpTo(Nested, 2)}
    \cup {Arr(xs) : xs \in SeqsUpTo(Scalars, MaxElems)}
    \cup {Arr(<<Str("Query"), v>> \o xs) :
            v \in Nested, xs \in SeqsUpTo(Scalars, MaxElems - 2)}
    \cup {Obj(<<Pair(k, v)>>) : k \in {"Query", "not"}, v \in Nested}

RECURSIVE Serialize(_), SerializeItems(_, _)

\* The JSON text of a value, as a peer writes it.
Serialize(v) ==
    CASE v.t = "str"  -> <<IF v.s = "Query" THEN QueryTok ELSE NotTok>>
      [] v.t = "num"  -> <<"1">>
      [] v.t = "arr"  -> <<"[">> \o SerializeItems(v.items, 1) \o <<"]">>
      [] v.t = "obj"  -> <<"{">> \o SerializeItems(v.items, 1) \o <<"}">>
      [] v.t = "pair" -> <<IF v.s = "Query" THEN QueryTok ELSE NotTok, ":">>
                         \o Serialize(v.items[1])

SerializeItems(xs, i) ==
    IF i > Len(xs) THEN <<>>
    ELSE Serialize(xs[i]) \o (IF i < Len(xs) THEN <<",">> ELSE <<>>)
         \o SerializeItems(xs, i + 1)

\* text without its k-th token.
Without(text, k) == SubSeq(text, 1, k - 1) \o SubSeq(text, k + 1, Len(text))

ParseIdle ==
    /\ ptext = <<>>
    /\ psent = Raw
    /\ pres = NoResult

\* The peer answers with the JSON text of a value.
respond ==
    /\ pres.kind = "none"
    /\ ptext = <<>>
    /\ \E v \in Values :
        /\ ptext' = Serialize(v)
        /\ psent' = v
    /\ UNCHANGED pres
    /\ UNCHANGED <<readerVars, connVars, queryVars, textVars,
                   memVars, taskVars>>

\* The peer answers with the JSON text of a value less one token.
respond_damaged ==
    /\ pres.kind = "none"
    /\ ptext = <<>>
    /\ \E v \in Values : \E k \in 1..Len(Serialize(v)) :
        ptext' = Without(Serialize(v), k)
    /\ psent' = Raw
    /\ UNCHANGED pres
    /\ UNCHANGED <<readerVars, connVars, queryVars, textVars,
                   memVars, taskVars>>

\* The peer answers with any text of up to MaxTokens tokens.
respond_raw ==
    /\ pres.kind = "none"
    /\ ptext = <<>>
    /\ \E text \in SeqsUpTo(Tokens, MaxTokens) \ {<<>>} : ptext' = text
    /\ psent' = Raw
    /\ UNCHANGED pres
    /\ UNCHANGED <<readerVars, connVars, queryVars, textVars,
                   memVars, taskVars>>

\* Response.parse(response_text) on the text received (the empty text when
\* the peer sent nothing).
parse ==
    /\ pres.kind = "none"
    /\ pres' = parse_text(ptext)
    /\ UNCHANGED <<ptext, psent>>
    /\ UNCHANGED <<readerVars, connVars, queryVars, textVars,
                   memVars, taskVars>>

NextParse ==
    \/ respond
    \/ respond_damaged
    \/ respond_raw
    \/ parse

\* ----------------------------------------------------------- execute_query
\* Longest query text, in characters.
MaxQuery == 2

\* The characters of a query text: a letter, the two characters JSON escapes
\* with a backslash, a control character, and one character outside ASCII
\* (U+00E9, written here by its code point).
EAcute == "U+00E9"
QChars == {"a", "\"", "\\", NL, EAcute}
QueryTexts == SeqsUpTo(QChars, MaxQuery)

\* A json.dumps that puts the characters of a string between quotes as they
\* are.
Escape_Raw(ch) == <<ch>>

\* json.encoder.py_encode_basestring_ascii on one character (ensure_ascii is
\* json.dumps' default).
Escape(ch) ==
    CASE ch = "\"" -> <<"\\", "\"">>
      [] ch = "\\" -> <<"\\", "\\">>
      [] ch = NL -> <<"\\", "n">>
      [] ch = EAcute -> <<"\\", "u", "0", "0", "e", "9">>
      [] OTHER -> <<ch>>

RECURSIVE EscapeAll(_)
EscapeAll(chars) ==
    IF chars = <<>> THEN <<>>
    ELSE Escape(Head(chars)) \o EscapeAll(Tail(chars))

\* The JSON string literal of a Python str.
Quote(chars) == <<"\"">> \o EscapeAll(chars) \o <<"\"">>

QueryChars == <<"Q", "u", "e", "r", "y">>

\* json.dumps(["Query", query_text]): the items of a list are joined by ", ".
dumps(query_text) ==
    <<"[">> \o Quote(QueryChars) \o <<",", " ">> \o Quote(query_text) \o <<"]">>

\* The errors a transport operation of an open connection may raise.
TransportErrors == {"ConnectionResetError", "BrokenPipeError"}

\* An execute_query that reports every failure of the exchange as an invalid
\* response.
Failure_Wrapped(e) == [NoResult EXCEPT !.kind = "InvalidQueryResponse"]

\* The exception e of a transport operation, as the caller of execute_query
\* gets it: there is no try around send_raw_request.
Failure(e) == [NoResult EXCEPT !.kind = e]

\* No transport operation has failed.
NotRaised == [at |-> "none", e |-> "none"]

QueryIdle ==
    /\ qpc = "idle"
    /\ qquery = <<>>
    /\ qrequest = <<>>
    /\ qconns = 0
    /\ qlog = <<>>
    /\ qwritten = <<>>
    /\ qraw = <<>>
    /\ qresult = NoResult
    /\ qraised = NotRaised

\* execute_query(socket_path, query_text) up to its call of
\* daemon_connection.send_raw_request, which starts by opening a connection.
execute_query(query_text) ==
    /\ qpc = "idle"
    /\ qquery' = query_text
    /\ qrequest' = dumps(query_text)
    /\ qpc' = "opening"
    /\ UNCHANGED <<qconns, qlog, qwritten, qraw, qresult, qraised>>
    /\ UNCHANGED <<readerVars, connVars, parseVars, textVars,
                   memVars, taskVars>>

\* send_raw_request: the connection is open.
connection_opened ==
    /\ qpc = "opening"
    /\ qconns' = qconns + 1
    /\ qlog' = Append(qlog, "open")
    /\ qpc' = "connected"
    /\ UNCHANGED <<qquery, qrequest, qwritten, qraw, qresult, qraised>>
    /\ UNCHANGED <<readerVars, connVars, parseVars, textVars,
                   memVars, taskVars>>

\* send_raw_request: opening the connection fails with the OS error e, which
\* passes through execute_query to its caller.
connection_refused(e) ==
    /\ qpc = "opening"
    /\ qraised' = [at |-> "connect", e |-> e]
    /\ qresult' = Failure(e)
    /\ qpc' = "done"
    /\ UNCHANGED <<qquery, qrequest, qconns, qlog, qwritten, qraw>>
    /\ UNCHANGED <<readerVars, connVars, parseVars, textVars,
                   memVars, taskVars>>

\* send_raw_request: the request is written on the connection.
send_request ==
    /\ qpc = "connected"
    /\ qwritten' = Append(qwritten, qrequest)
    /\ qlog' = Append(qlog, "write")
    /\ qpc' = "sent"
    /\ UNCHANGED <<qquery, qrequest, qconns, qraw, qresult, qraised>>
    /\ UNCHANGED <<readerVars, connVars, parseVars, textVars,
                   memVars, taskVars>>

\* send_raw_request: the write, or the read after it, fails with e; the
\* connection scope is left with e on its way out.
transport_fails(e) ==
    /\ qpc \in {"connected", "sent"}
    /\ qraised' = [at |-> IF qpc = "connected" THEN "write" ELSE "read",
                   e |-> e]
    /\ qresult' = Failure(e)
    /\ qpc' = "closing"
    /\ UNCHANGED <<qquery, qrequest, qconns, qlog, qwritten, qraw>>
    /\ UNCHANGED <<readerVars, connVars, parseVars, textVars,
                   memVars, taskVars>>

\* send_raw_request: one response is read from the connection, the text of a
\* JSON value or, from a peer that closes without answering, the empty text.
receive_response ==
    /\ qpc = "sent"
    /\ \/ \E v \in Values : qraw' = Serialize(v)
       \/ qraw' = <<>>
    /\ qlog' = Append(qlog, "read")
    /\ qpc' = "closing"
    /\ UNCHANGED <<qquery, qrequest, qconns, qwritten, qresult, qraised>>
    /\ UNCHANGED <<readerVars, connVars, parseVars, textVars,
                   memVars, taskVars>>

\* send_raw_request: the connection scope is left and the connection closed;
\* send_raw_request returns raw_response or lets the failure through.
close_connection ==
    /\ qpc = "closing"
    /\ qlog' = Append(qlog, "close")
    /\ qpc' = IF qresult.kind = "none" THEN "closed" ELSE "done"
    /\ UNCHANGED <<qquery, qrequest, qconns, qwritten, qraw, qresult,
                   qraised>>
    /\ UNCHANGED <<readerVars, connVars, parseVars, textVars,
                   memVars, taskVars>>

\* An execute_query that parses the response where it is read, inside the
\* exchange, and returns from there.
return_response_Early ==
    /\ qpc = "closing"
    /\ qresult.kind = "none"
    /\ qresult' = parse_text(qraw)
    /\ qpc' = "done"
    /\ UNCHANGED <<qquery, qrequest, qconns, qlog, qwritten, qraw, qraised>>
    /\ UNCHANGED <<readerVars, connVars, parseVars, textVars,
                   memVars, taskVars>>

\* An execute_query that asks again when the response is not a Query
\* envelope.
return_response_Retrying ==
    /\ qpc = "closed"
    /\ IF parse_text(qraw).kind = "InvalidQueryResponse" /\ qconns < 2
       THEN qresult' = NoResult /\ qpc' = "opening"
       ELSE qresult' = parse_text(qraw) /\ qpc' = "done"
    /\ UNCHANGED <<qquery, qrequest, qconns, qlog, qwritten, qraw, qraised>>
    /\ UNCHANGED <<readerVars, connVars, parseVars, textVars,
                   memVars, taskVars>>

\* execute_query: `return Response.parse(raw_response)`.
return_response ==
    /\ qpc = "closed"
    /\ qresult' = parse_text(qraw)
    /\ qpc' = "done"
    /\ UNCHANGED <<qquery, qrequest, qconns, qlog, qwritten, qraw, qraised>>
    /\ UNCHANGED <<readerVars, connVars, parseVars, textVars,
                   memVars, taskVars>>

NextQuery ==
    \/ \E query_text \in QueryTexts : execute_query(query_text)
    \/ connection_opened
    \/ \E e \in OSErrors : connection_refused(e)
    \/ send_request
    \/ \E e \in TransportErrors : transport_fails(e)
    \/ receive_response
    \/ close_connection
    \/ return_response

\* ------------------------------------------------------------ text channels
\* Longest text handed to one TextWriter.write, in characters.
MaxText == 3
\* Most bytes the peer of a text channel sends in one behaviour.
MaxStream == 5

\* Most TextWriter.write calls in one behaviour.
MaxWrites == 1

\* The characters of a text: one of ASCII and one that UTF-8 encodes in two
\* bytes.  Both are encodable.
TextChars == {NL, EAcute}
Texts == SeqsUpTo(TextChars, MaxText)
\* The separators handed to TextReader.read_until.
TextSeparators == {<<ch>> : ch \in TextChars}

\* The bytes of a text channel: the two ASCII bytes, the lead byte and the
\* continuation byte of U+00E9, and a byte that occurs in no UTF-8 text.
TextBytes == {"a", NL, "C3", "A9", "FF"}
\* What a peer that does not echo may send: bytes that are not UTF-8.
Garbage == {<<"FF">>, <<"A9">>, <<"C3">>, <<"C3", NL>>, <<"a", "FF", NL>>}

RECURSIVE encode(_)
\* str.encode("utf-8")
encode(text) ==
    IF text = <<>> THEN <<>>
    ELSE (IF Head(text) = EAcute THEN <<"C3", "A9">> ELSE <<Head(text)>>)
         \o encode(Tail(text))

NoText == [kind |-> "none", text |-> <<>>]
\* No TextReader call made yet.
NoTextCall == [op |-> "none", separator |-> <<>>, count |-> 0]

RECURSIVE decode_from(_, _, _)
\* The UTF-8 decoder at byte i of b (1-based), with the characters decoded so
\* far; errors="strict", which bytes.decode defaults to.
decode_from(b, i, chars) ==
    IF i > Len(b) THEN [kind |-> "ret", text |-> chars]
    ELSE IF b[i] \in {"a", NL}
    THEN decode_from(b, i + 1, Append(chars, b[i]))
    ELSE IF b[i] = "C3" /\ i < Len(b) /\ b[i + 1] = "A9"
    THEN decode_from(b, i + 2, Append(chars, EAcute))
    ELSE [kind |-> "UnicodeDecodeError", text |-> <<>>]

\* result_bytes.decode(self.encoding)
decode(result_bytes) == decode_from(result_bytes, 1, <<>>)

TextIdle ==
    /\ twritten = <<>>
    /\ tres = NoText
    /\ tlast = NoTextCall

\* A TextReader that decodes what it can of the bytes read and keeps the
\* rest to itself.
TextResult_Lenient(r) ==
    IF r.kind # "ret" THEN [kind |-> r.kind, text |-> <<>>]
    ELSE LET ok == {n \in 0..Len(r.data) : decode(Take(r.data, n)).kind = "ret"}
             most == CHOOSE n \in ok : \A m \in ok : m <= n
         IN  decode(Take(r.data, most))

\* What a TextReader call ends in when its call on the byte Reader ends in
\* r: the decoded data of a return, or the byte Reader's exception as it is.
TextResult(r) ==
    IF r.kind = "ret" THEN decode(r.data)
    ELSE [kind |-> r.kind, text |-> <<>>]

\* The coroutine of a TextReader call runs until its next suspension or its
\* end, c being its call on the byte Reader.
RunText(c) ==
    /\ RunReader(c)
    /\ tres' = IF rcall' = NoCall THEN TextResult(rres') ELSE tres
    /\ UNCHANGED twritten
    /\ UNCHANGED <<connVars, parseVars, queryVars, memVars, taskVars>>

\* TextWriter.write(data): the encoded text goes to the byte Writer, and the
\* peer of the channel sends it back.  The owner of the channel is not
\* suspended in a read of it.
text_write(data) ==
    /\ ~eof
    /\ rcall.op = "none"
    /\ Len(twritten) < MaxWrites
    /\ Len(stream) + Len(encode(data)) <= MaxStream
    /\ twritten' = Append(twritten, data)
    /\ stream' = stream \o encode(data)
    /\ wire' = wire \o encode(data)
    /\ UNCHANGED <<buffer, eof, rcall, rres, returned, allok, tres, tlast>>
    /\ UNCHANGED <<connVars, parseVars, queryVars, memVars, taskVars>>

\* A peer that does not echo sends bytes of its own, before anything else.
peer_sends(bytes) ==
    /\ ~eof
    /\ stream = <<>>
    /\ Len(stream) + Len(bytes) <= MaxStream
    /\ stream' = stream \o bytes
    /\ wire' = wire \o bytes
    /\ UNCHANGED <<buffer, eof, rcall, rres, returned, allok, twritten, tres,
                   tlast>>
    /\ UNCHANGED <<connVars, parseVars, queryVars, memVars, taskVars>>

\* TextReader.read_until(separator)
text_read_until(separator) ==
    /\ rcall.op = "none"
    /\ tlast' = [op |-> "read_until", separator |-> separator, count |-> 0]
    /\ RunText([op |-> "read_until", sep |-> encode(separator), count |-> 0,
                start |-> Consumed, offset |-> 0])

\* TextReader.read_exactly(count)
text_read_exactly(count) ==
    /\ rcall.op = "none"
    /\ tlast' = [op |-> "read_exactly", separator |-> <<>>, count |-> count]
    /\ RunText([op |-> "read_exactly", sep |-> <<>>, count |-> count,
                start |-> Consumed, offset |-> 0])

\* TextReader.readline()
text_readline ==
    /\ rcall.op = "none"
    /\ tlast' = [op |-> "readline", separator |-> <<>>, count |-> 0]
    /\ RunText([op |-> "readline", sep |-> <<NL>>, count |-> 0,
                start |-> Consumed, offset |-> 0])

\* The byte Reader's _wait_for_data returns and the suspended TextReader call
\* goes on.
text_resume ==
    /\ rcall.op # "none"
    /\ UNCHANGED tlast
    /\ RunText(rcall)

NextText ==
    \/ \E data \in Texts : text_write(data)
    \/ \E bytes \in Garbage : peer_sends(bytes)
    \/ \E k \in 1..MaxStream : feed_data(k)
    \/ feed_eof
    \/ \E separator \in TextSeparators : text_read_until(separator)
    \/ \E count \in 0..MaxCount : text_read_exactly(count)
    \/ text_readline
    \/ text_resume

\* ---------------------------------------------------------- memory channels
\* Longest byte string a memory-backed Reader is seeded with.
MaxMem == 3
\* Most calls made on one memory-backed Reader.
MaxOps == 4

MemData == SeqsUpTo(Bytes, MaxMem)

\* No call completed yet.  n counts the calls completed and `after` names
\* the call before the last.
NoMemRes == [op |-> "none", sep |-> <<>>, count |-> 0, start |-> 0,
             kind |-> "none", data |-> <<>>, after |-> "none", n |-> 0]

\* A memory-backed Reader seeded with data, and an empty memory-backed
\* Writer.
MemOver(data) ==
    /\ mdata = data
    /\ mcursor = 0
    /\ mres = NoMemRes
    /\ mitems = <<>>
    /\ mcalls = <<>>

MemIdle == MemOver(<<>>)

\* read_until(separator) of the memory-backed Reader with the cursor at
\* cursor: the bytes up to and including the first occurrence of the
\* separator, or IncompleteRead with all the unread bytes, which are
\* consumed.
MemReadUntil(data, cursor, separator) ==
    LET unread == Drop(data, cursor)
        isep == Find(unread, separator, 0)
    IN  IF isep # -1
        THEN [kind |-> "ret", data |-> Take(unread, isep + Len(separator)),
              cursor |-> cursor + isep + Len(separator)]
        ELSE [kind |-> "IncompleteRead", data |-> unread,
              cursor |-> Len(data)]

\* read_exactly(count) of the memory-backed Reader.
MemReadExactly(data, cursor, count) ==
    LET unread == Drop(data, cursor)
    IN  IF count <= Len(unread)
        THEN [kind |-> "ret", data |-> Take(unread, count),
              cursor |-> cursor + count]
        ELSE [kind |-> "IncompleteRead", data |-> unread,
              cursor |-> Len(data)]

\* A call of the memory-backed Reader completes with r.
MemDone(op, separator, count, r) ==
    /\ mres.n < MaxOps
    /\ mcursor' = r.cursor
    /\ mres' = [op |-> op, sep |-> separator, count |-> count,
                start |-> mcursor, kind |-> r.kind, data |-> r.data,
                after |-> mres.op, n |-> mres.n + 1]
    /\ UNCHANGED <<mdata, mitems, mcalls>>
    /\ UNCHANGED <<readerVars, connVars, parseVars, queryVars,
                   textVars, taskVars>>

\* MemoryBytesReader.read_until(separator)
mem_read_until(separator) ==
    MemDone("read_until", separator, 0,
            MemReadUntil(mdata, mcursor, separator))

\* MemoryBytesReader.read_exactly(count)
mem_read_exactly(count) ==
    MemDone("read_exactly", <<>>, count,
            MemReadExactly(mdata, mcursor, count))

\* MemoryBytesReader.readline(), which is BytesReader.readline.
mem_readline ==
    MemDone("readline", <<NL>>, 0,
            CatchIncomplete(MemReadUntil(mdata, mcursor, <<NL>>)))

\* MemoryBytesReader.reset()
mem_reset ==
    MemDone("reset", <<>>, 0, [kind |-> "ret", data |-> <<>>, cursor |-> 0])

\* MemoryBytesWriter.write(data)
mem_write(data) ==
    /\ Len(mcalls) < MaxCalls
    /\ mcalls' = Append(mcalls, data)
    /\ mitems' = Append(mitems, data)
    /\ UNCHANGED <<mdata, mcursor, mres>>
    /\ UNCHANGED <<readerVars, connVars, parseVars, queryVars,
                   textVars, taskVars>>

NextMem ==
    \/ \E separator \in Separators : mem_read_until(separator)
    \/ \E count \in 0..MaxCount : mem_read_exactly(count)
    \/ mem_readline
    \/ mem_reset
    \/ \E data \in Datas : mem_write(data)

\* ---------------------------------------------------- concurrent connections
\* The tasks that drive a connection each, and the connections, named by the
\* task that opened them.
Tasks == {1, 2}
\* Largest chunk delivered at once, and largest count handed to read_exactly,
\* on these connections.
MaxShare == 2

\* What the peers of the connections may send.
ShareStreams == {<<"a", NL>>, <<NL, "a">>, <<"a">>}

\* The data a task writes, different for different tasks.
DataOf(t) == IF t = 1 THEN <<"a">> ELSE <<NL>>

\* A connect that keeps the streams of the first connection in a module-level
\* name and hands them to every caller.
StreamOf_Shared(t) == 1

\* connect(): every call awaits open_unix_connection for a stream_reader and
\* a stream_writer of its own and yields the Reader and the Writer built on
\* them, which are attributes of the instances: the connection a task reads,
\* writes and closes through its pair is the one its own call opened.
StreamOf(t) == t

\* A connection whose peer sends s, open, nothing delivered yet.
ChanOver(s) ==
    [stream |-> s, wire |-> s, buffer |-> <<>>, eof |-> FALSE,
     transport |-> "open", out |-> <<>>]

\* A task in the body of its scope, before its first call.
TaskStart ==
    [pc |-> "body", call |-> NoCall, got |-> <<>>, ok |-> TRUE,
     wrote |-> <<>>]

\* No task runs.
TasksIdle ==
    /\ chan = [k \in Tasks |-> ChanOver(<<>>)]
    /\ task = [t \in Tasks |-> [TaskStart EXCEPT !.pc = "exited"]]

\* Bytes taken out of the buffer of connection k so far.
ConsumedOf(k) ==
    Len(chan[k].stream) - Len(chan[k].buffer) - Len(chan[k].wire)

\* The transport of connection k delivers the next n bytes to its protocol,
\* which it does while it is open.
task_feed_data(k, n) ==
    /\ chan[k].transport = "open"
    /\ n \in 1..Len(chan[k].wire)
    /\ chan' = [chan EXCEPT ![k].buffer = @ \o Take(chan[k].wire, n),
                            ![k].wire = Drop(@, n)]
    /\ UNCHANGED task
    /\ UNCHANGED <<readerVars, connVars, parseVars, queryVars, textVars,
                   memVars>>

\* The peer of connection k has sent all it sends: eof_received.
task_feed_eof(k) ==
    /\ chan[k].transport = "open"
    /\ chan[k].wire = <<>>
    /\ ~chan[k].eof
    /\ chan' = [chan EXCEPT ![k].eof = TRUE]
    /\ UNCHANGED task
    /\ UNCHANGED <<readerVars, connVars, parseVars, queryVars, textVars,
                   memVars>>

\* The read call c of task t runs on the StreamReader of its Reader until it
\* suspends or ends.
TaskRun(t, c) ==
    LET k == StreamOf(t)
        r == Pass(c, chan[k].buffer, chan[k].eof)
    IN  /\ chan' = [chan EXCEPT ![k].buffer = r.buf]
        /\ task' = [task EXCEPT ![t] =
                IF r.kind = "wait"
                THEN [@ EXCEPT !.pc = "in_read",
                               !.call = [c EXCEPT !.offset = r.offset]]
                ELSE [@ EXCEPT !.pc = "body",
                               !.call = NoCall,
                               !.got = IF r.kind = "ret" THEN @ \o r.data
                                       ELSE @,
                               !.ok = (@ /\ r.kind = "ret")]]
        /\ UNCHANGED <<readerVars, connVars, parseVars, queryVars, textVars,
                       memVars>>

\* Task t calls readline() on its Reader.
task_readline(t) ==
    /\ task[t].pc = "body"
    /\ TaskRun(t, [op |-> "readline", sep |-> <<NL>>, count |-> 0,
                   start |-> 0, offset |-> 0])

\* Task t calls read_exactly(count) on its Reader.
task_read_exactly(t, count) ==
    /\ task[t].pc = "body"
    /\ TaskRun(t, [op |-> "read_exactly", sep |-> <<>>, count |-> count,
                   start |-> 0, offset |-> 0])

\* The suspended read of task t goes round its loop again.
task_resume(t) ==
    /\ task[t].pc = "in_read"
    /\ TaskRun(t, task[t].call)

\* Task t calls write(DataOf(t)) on its Writer, once: the data goes to the
\* transport of the stream_writer.
task_write(t) ==
    /\ task[t].pc = "body"
    /\ task[t].wrote = <<>>
    /\ chan[StreamOf(t)].transport = "open"
    /\ task' = [task EXCEPT ![t].wrote = TransportWrite(@, DataOf(t))]
    /\ chan' = [chan EXCEPT ![StreamOf(t)].out =
                                TransportWrite(@, DataOf(t))]
    /\ UNCHANGED <<readerVars, connVars, parseVars, queryVars, textVars,
                   memVars>>

\* The body of task t ends and connect's finally clause calls close() on its
\* Writer: stream_writer.close(), then the wait for the transport.
task_close(t) ==
    /\ task[t].pc = "body"
    /\ task' = [task EXCEPT ![t].pc = "wait_closed"]
    /\ chan' = [chan EXCEPT ![StreamOf(t)].transport =
                                IF @ = "open" THEN "closing" ELSE @]
    /\ UNCHANGED <<readerVars, connVars, parseVars, queryVars, textVars,
                   memVars>>

\* The event loop finishes closing the transport of connection k.
task_connection_lost(k) ==
    /\ chan[k].transport = "closing"
    /\ chan' = [chan EXCEPT ![k].transport = "closed"]
    /\ UNCHANGED task
    /\ UNCHANGED <<readerVars, connVars, parseVars, queryVars, textVars,
                   memVars>>

\* wait_closed() returns to task t and its scope is left.
task_exit(t) ==
    /\ task[t].pc = "wait_closed"
    /\ ClosedAcknowledged(chan[StreamOf(t)].transport)
    /\ task' = [task EXCEPT ![t].pc = "exited"]
    /\ UNCHANGED chan
    /\ UNCHANGED <<readerVars, connVars, parseVars, queryVars, textVars,
                   memVars>>

NextTasks ==
    \/ \E k \in Tasks : \E n \in 1..MaxShare : task_feed_data(k, n)
    \/ \E k \in Tasks : task_feed_eof(k)
    \/ \E t \in Tasks : task_readline(t)
    \/ \E t \in Tasks : \E count \in 1..MaxShare : task_read_exactly(t, count)
    \/ \E t \in Tasks : task_resume(t)
    \/ \E t \in Tasks : task_write(t)
    \/ \E t \in Tasks : task_close(t)
    \/ \E k \in Tasks : task_connection_lost(k)
    \/ \E t \in Tasks : task_exit(t)

\* ----------------------------------------------------------- specifications
\* Each part of the program is checked on its own, the others left idle.
\* The parts that take no step in the byte-Reader, connect-scope, response and
\* query specifications.
ChannelsIdle == TextIdle /\ MemIdle /\ TasksIdle

InitReader ==
    /\ \E s \in Streams : ReaderOver(s)
    /\ ConnIdle /\ ParseIdle /\ QueryIdle /\ ChannelsIdle

SpecReader == InitReader /\ [][NextReader]_vars

InitConn ==
    ReaderOver(<<>>) /\ ConnIdle /\ ParseIdle /\ QueryIdle /\ ChannelsIdle

SpecConn == InitConn /\ [][NextConn]_vars

\* The event loop runs every callback and every task step that is ready, and
\* the kernel goes on taking (or refusing) queued output.
SpecConnFair ==
    /\ SpecConn
    /\ WF_vars(throw_cancelled)
    /\ WF_vars(connection_lost)
    /\ WF_vars(\E low \in BOOLEAN : flush(low))
    /\ WF_vars(wait_closed_returns)

InitParse ==
    ReaderOver(<<>>) /\ ConnIdle /\ ParseIdle /\ QueryIdle /\ ChannelsIdle

SpecParse == InitParse /\ [][NextParse]_vars

InitQuery ==
    ReaderOver(<<>>) /\ ConnIdle /\ ParseIdle /\ QueryIdle /\ ChannelsIdle

SpecQuery == InitQuery /\ [][NextQuery]_vars

InitText ==
    ReaderOver(<<>>) /\ ConnIdle /\ ParseIdle /\ QueryIdle /\ ChannelsIdle

SpecText == InitText /\ [][NextText]_vars

InitMem ==
    /\ \E data \in MemData : MemOver(data)
    /\ ReaderOver(<<>>) /\ ConnIdle /\ ParseIdle /\ QueryIdle /\ TextIdle
    /\ TasksIdle

SpecMem == InitMem /\ [][NextMem]_vars

\* A stream Writer in a connect scope and a memory-backed Writer, each
\* written to by its owner.
NextWriters ==
    \/ NextConn
    \/ \E data \in Datas : mem_write(data)

SpecWriters == InitConn /\ [][NextWriters]_vars

\* Every task has opened its connection and is in the body of its scope.
InitTasks ==
    /\ chan \in [Tasks -> {ChanOver(s) : s \in ShareStreams}]
    /\ task = [t \in Tasks |-> TaskStart]
    /\ ReaderOver(<<>>) /\ ConnIdle /\ ParseIdle /\ QueryIdle
    /\ TextIdle /\ MemIdle

SpecTasks == InitTasks /\ [][NextTasks]_vars

\* ------------------------------------------------------------ reader claims
\* The unread data the last completed call started from, and where the
\* separator first occurs in it (-1: nowhere).
LastUnread == Unread(rres.start)
LastFirst == Find(LastUnread, rres.sep, 0)

\* C1: as long as every read call so far returned, the concatenation of the
\* returned byte strings is exactly the prefix of the stream the Reader has
\* consumed: nothing returned twice, skipped or reordered.
C1_ReturnedIsConsumedPrefix ==
    allok => returned = Take(stream, Consumed)

\* C1 witness: a readline that returned data after earlier calls had returned
\* the bytes before it, the three together making up the whole stream.
C1_Witness ==
    /\ allok
    /\ rres.op = "readline"
    /\ rres.start >= 2
    /\ rres.data # <<>>
    /\ returned = stream

\* C2 (as claimed): whenever the separator occurs in the unread data,
\* read_until returns the unread bytes up to and including its first
\* occurrence and leaves the cursor right after it.
C2_ReadUntilFirstOccurrence ==
    (rres.op = "read_until" /\ LastFirst # -1) =>
        /\ rres.kind = "ret"
        /\ rres.data = Take(LastUnread, LastFirst + Len(rres.sep))
        /\ Consumed = rres.start + LastFirst + Len(rres.sep)

\* What the code does for C2: the claim's result when the first occurrence
\* starts within Limit bytes of the cursor, LimitOverrunError with nothing
\* consumed when it starts beyond.
ReadUntilWithinLimit ==
    (rres.op = "read_until" /\ LastFirst # -1) =>
        IF LastFirst <= Limit
        THEN /\ rres.kind = "ret"
             /\ rres.data = Take(LastUnread, LastFirst + Len(rres.sep))
             /\ Consumed = rres.start + LastFirst + Len(rres.sep)
        ELSE /\ rres.kind = "LimitOverrun"
             /\ Consumed = rres.start

\* C3: read_exactly(n) returns the first n unread bytes when that many are
\* there, and otherwise fails with IncompleteRead carrying all the unread
\* bytes (for a fresh Reader seeded with S: the first n bytes of S, or S).
C3_ReadExactly ==
    rres.op = "read_exactly" =>
        IF rres.count <= Len(LastUnread)
        THEN rres.kind = "ret" /\ rres.data = Take(LastUnread, rres.count)
        ELSE rres.kind = "IncompleteRead" /\ rres.data = LastUnread

\* C3 witness: a fresh Reader over three bytes asked for four.
C3_Witness ==
    /\ rres.op = "read_exactly"
    /\ rres.start = 0
    /\ Len(stream) = 3
    /\ rres.count = 4
    /\ rres.kind = "IncompleteRead"
    /\ rres.data = stream

\* C4 (as claimed): when the separator occurs nowhere in the unread data, so
\* that end-of-stream comes first, read_until fails with IncompleteRead and
\* the partial data is exactly the bytes unread when the call started.
C4_IncompleteCarriesUnread ==
    (rres.op = "read_until" /\ LastFirst = -1) =>
        rres.kind = "IncompleteRead" /\ rres.data = LastUnread

\* What the code does for C4: the claim's result while the unread data is at
\* most Limit + Len(sep) - 1 bytes long.
IncompleteWithinLimit ==
    (rres.op = "read_until" /\ LastFirst = -1
        /\ Len(LastUnread) + 1 - Len(rres.sep) <= Limit) =>
        rres.kind = "IncompleteRead" /\ rres.data = LastUnread

\* C5 (as claimed): readline never fails with IncompleteRead; with a newline
\* in the unread data it returns the bytes up to and including the first
\* one, and otherwise it returns all the unread bytes as a normal result.
C5_Readline ==
    rres.op = "readline" =>
        /\ rres.kind # "IncompleteRead"
        /\ rres.kind = "ret"
        /\ rres.data = IF LastFirst # -1
                       THEN Take(LastUnread, LastFirst + 1)
                       ELSE LastUnread

\* The part of C5 the code keeps: no readline ends in IncompleteRead, and one
\* that returns returns the line, or all that was unread.
ReadlineNeverIncomplete ==
    rres.op = "readline" =>
        /\ rres.kind \in {"ret", "LimitOverrun"}
        /\ rres.kind = "ret" =>
               rres.data = IF LastFirst # -1
                           THEN Take(LastUnread, LastFirst + 1)
                           ELSE LastUnread

\* ------------------------------------------------------ connect-scope claims
\* C6: in a scope whose Writer was constructed, Writer.close() is invoked
\* exactly once: not while the body runs, once when the body has ended
\* (normally, with an error or by cancellation), and never a second time.
C6_CloseExactlyOnce ==
    writer = "constructed" =>
        closeCalls = (IF InBody THEN 0 ELSE 1)

\* C6 witness: a text-mode scope whose body raised, left with the Writer
\* closed once and the body's error in the caller's hands.
C6_Witness ==
    /\ cmode = "text"
    /\ cpc = "exited"
    /\ entered
    /\ outcome \in BodyErrors
    /\ closeCalls = 1

C8_OpenFailure ==
    oserr # "none" =>
        /\ ~entered
        /\ closeCalls = 0
        /\ transport = "none"
        /\ cpc = "exited"
        /\ outcome = oserr

\* C8 witness: a scope left with ConnectionRefusedError before its body ran.
C8_Witness ==
    /\ oserr = "ConnectionRefusedError"
    /\ cpc = "exited"
    /\ outcome = "ConnectionRefusedError"
    /\ ~entered

\* --------------------------------------------------------- response claims
\* The texts that are JSON, and those that are a Query envelope: an array of
\* two or more elements whose first is the string "Query".
ValidTexts == {Serialize(v) : v \in Values}
Envelopes ==
    {v \in Values : v.t = "arr" /\ Len(v.items) >= 2
                    /\ v.items[1] = Str("Query")}
EnvelopeTexts == {Serialize(v) : v \in Envelopes}

\* C9: Response.parse succeeds exactly on the texts that are the JSON of a
\* Query envelope, and its payload is then the envelope's second element;
\* on every other text it raises InvalidQueryResponse.
C9_ParseAcceptsEnvelopes ==
    pres.kind # "none" =>
        IF ptext \in EnvelopeTexts
        THEN /\ pres.kind = "Response"
             /\ \E v \in Envelopes :
                    Serialize(v) = ptext /\ pres.payload = v.items[2]
        ELSE pres.kind = "InvalidQueryResponse"

\* C9 witness: a three-element envelope whose payload is an array.
C9_Witness ==
    /\ ptext = <<"[", QueryTok, ",", "[", "1", "]", ",", NotTok, "]">>
    /\ pres.kind = "Response"
    /\ pres.payload = Arr(<<Num>>)

\* C10 (as claimed): every InvalidQueryResponse carries the raw response
\* text, in its message or at least in the decode error chained to it.
C10_CarriesRawText ==
    pres.kind = "InvalidQueryResponse" =>
        \/ pres.arg = ptext
        \/ pres.chained /\ pres.doc = ptext

\* C10 (amended): for text that is not JSON the message holds the decoder's
\* description of the error and the raw text is carried only by the chained
\* JSONDecodeError; for JSON of the wrong shape nothing is chained and the
\* message holds Python's rendering of the decoded value, which is the raw
\* text only where the two notations agree (among the texts modelled here:
\* when the text holds no string literal).
C10_MessageOfInvalidResponse ==
    pres.kind = "InvalidQueryResponse" =>
        IF ptext \in ValidTexts
        THEN /\ ~pres.chained
             /\ pres.prefix = "Unexpected JSON response from server: "
             /\ (pres.arg = ptext) <=>
                    (\A i \in 1..Len(ptext) : ptext[i] \notin StrToks)
        ELSE /\ pres.chained
             /\ pres.doc = ptext
             /\ pres.prefix = "Cannot parse response as JSON: "
             /\ pres.arg # ptext

\* C10 witness: the JSON object {"not": "not"}, refused with a message that
\* renders it as {'not': 'not'}.
C10_Witness ==
    /\ ptext = <<"{", NotTok, ":", NotTok, "}">>
    /\ pres.kind = "InvalidQueryResponse"
    /\ pres.arg = <<"{", "'not'", ":", "'not'", "}">>
    /\ ~pres.chained

\* ------------------------------------------------------------ query claims
Count(log, op) == Cardinality({i \in 1..Len(log) : log[i] = op})

\* C11: an execute_query call opens at most one connection and performs on
\* it at most one write and at most one read, the read after the write; a
\* call that got a response to parse opened exactly one connection and did
\* exactly open, write (the request), read, close on it.
C11_OneConnectionOneWriteOneRead ==
    /\ qconns <= 1
    /\ Count(qlog, "open") = qconns
    /\ Count(qlog, "write") <= 1
    /\ Count(qlog, "read") <= 1
    /\ Len(qwritten) = Count(qlog, "write")
    /\ \A i, j \in 1..Len(qlog) :
        (qlog[i] = "write" /\ qlog[j] = "read") => i < j
    /\ (qpc = "done" /\ qresult.kind \in {"Response", "InvalidQueryResponse"})
        => /\ qconns = 1
           /\ qlog = <<"open", "write", "read", "close">>
           /\ qwritten = <<qrequest>>

\* C11 witness: a call that returned a Response after one open, one write,
\* one read and one close.
C11_Witness ==
    /\ qpc = "done"
    /\ qresult.kind = "Response"
    /\ qconns = 1
    /\ qlog = <<"open", "write", "read", "close">>

\* The envelope ["Query", "<p>"], as the peer writes it.
Answer(p) == Serialize(Arr(<<Str("Query"), Str(p)>>))

RECURSIVE EncodeAll(_)
\* The bytes of the texts ts, one after the other.
EncodeAll(ts) ==
    IF ts = <<>> THEN <<>> ELSE encode(Head(ts)) \o EncodeAll(Tail(ts))

\* The completed call r of the byte Reader is one that reads back exactly the
\* bytes b: read_exactly of that many bytes, or read_until / readline with a
\* separator whose first occurrence in b is at its end.
Fits(r, b) ==
    \/ r.op = "read_exactly" /\ r.count = Len(b)
    \/ /\ r.op \in {"read_until", "readline"}
       /\ Find(b, r.sep, 0) # -1
       /\ Find(b, r.sep, 0) = Len(b) - Len(r.sep)

\* The i-th text written was read back by the last completed call, on a
\* channel that carries nothing but the echo of what was written.
ReadBack(i) ==
    /\ stream = EncodeAll(twritten)
    /\ rres.start = Len(EncodeAll(SubSeq(twritten, 1, i - 1)))
    /\ Fits(rres, encode(twritten[i]))

\* C13 (as claimed): a text written through the TextWriter and read back
\* through the TextReader of the echoing channel comes back as it was
\* written.
C13_RoundTrip ==
    \A i \in 1..Len(twritten) :
        ReadBack(i) => tres = [kind |-> "ret", text |-> twritten[i]]

\* What the code does for C13: the text comes back when it is read back by
\* read_exactly, or by read_until / readline with the separator starting
\* within Limit bytes of the start of the text; beyond that the read fails
\* with LimitOverrunError.
RoundTripWithinLimit ==
    \A i \in 1..Len(twritten) :
        ReadBack(i) =>
            IF \/ rres.op = "read_exactly"
               \/ Len(encode(twritten[i])) - Len(rres.sep) <= Limit
            THEN tres = [kind |-> "ret", text |-> twritten[i]]
            ELSE tres.kind = "LimitOverrun"

\* The character errors="replace" puts in the place of an undecodable byte.
Replacement == "U+FFFD"

RECURSIVE decode_replace(_, _)
\* The text bytes.decode("utf-8", errors="replace") gives for the bytes of b
\* from the i-th on.
decode_replace(b, i) ==
    IF i > Len(b) THEN <<>>
    ELSE IF b[i] \in {"a", NL} THEN <<b[i]>> \o decode_replace(b, i + 1)
    ELSE IF b[i] = "C3" /\ i < Len(b) /\ b[i + 1] = "A9"
    THEN <<EAcute>> \o decode_replace(b, i + 2)
    ELSE <<Replacement>> \o decode_replace(b, i + 1)

\* C14 (as claimed): a TextReader call whose bytes were read never fails on
\* bytes that are not valid UTF-8: it returns the text, with a replacement
\* marker for each undecodable byte.
C14_DecodeNeverFails ==
    rres.kind = "ret" =>
        tres = [kind |-> "ret", text |-> decode_replace(rres.data, 1)]

\* What the code does for C14: the call returns the text when the bytes read
\* are the UTF-8 of a text, and otherwise fails with UnicodeDecodeError, the
\* bytes read being consumed all the same.
DecodeIsStrict ==
    rres.kind = "ret" =>
        /\ Consumed = rres.start + Len(rres.data)
        /\ IF \E n \in 0..Len(rres.data) :
                  \E t \in [1..n -> TextChars \cup {"a"}] :
                      encode(t) = rres.data
           THEN tres.kind = "ret" /\ encode(tres.text) = rres.data
           ELSE tres.kind = "UnicodeDecodeError"

\* ------------------------------------------------------------ writer claims
\* C15: the data of the write calls made on a Writer reach its transport in
\* call order, one unit per call, nothing merged, dropped or reordered: the
\* transport of a stream Writer was handed exactly the data of the calls,
\* and the items of a memory-backed Writer are exactly the data of the
\* calls.
C15_WritesInCallOrder ==
    /\ handed = wcalls
    /\ mitems = mcalls

\* C15 witness: two different units written on each Writer, the second of
\* the stream Writer still queued in its transport.
C15_Witness ==
    /\ handed = <<<<"a">>, <<NL>>>>
    /\ outq > 0
    /\ mitems = <<<<NL>>, <<"a">>>>

\* A step in which a Writer.write call returns to the body: at once, the
\* protocol not being paused, or out of drain().
WriteReturns ==
    \/ cpc = "body" /\ cpc' = "body" /\ wcalls' # wcalls
    \/ cpc = "in_write" /\ cpc' = "body"

\* C16 (as claimed): when a write call returns, none of its data is still
\* pending on the writing side (the transport's queue is empty, the data of
\* the call being the last in it), and the call does not return while the
\* transport applies backpressure.
C16_WriteReturnsFlushed ==
    [][WriteReturns => (outq' = 0 /\ ~paused')]_vars

\* What the code does for C16: a write call never returns while the
\* protocol is paused, and that is all drain() waits for.
WriteReturnsUnpaused ==
    [][WriteReturns => ~paused']_vars

\* C17 (as claimed): whenever Writer.close() has returned the transport is
\* closed, and a scope whose Writer was constructed has exited only with the
\* transport closed.
C17_ExitOnlyAfterClosed ==
    /\ closeReturned => transport = "closed"
    /\ (cpc = "exited" /\ writer = "constructed") => transport = "closed"

\* C17 (amended): whenever Writer.close() has returned the transport is
\* closed; a scope whose Writer was constructed has exited either with
\* close() returned, or with CancelledError thrown into close() while it
\* waited, the shutdown begun and the transport closing or closed.
C17_CloseWaitsUnlessCancelled ==
    /\ closeReturned => (transport = "closed" /\ closeCalls = 1)
    /\ (cpc = "exited" /\ writer = "constructed") =>
        \/ closeReturned
        \/ /\ outcome = "CancelledError"
           /\ closeCalls = 1
           /\ transport \in {"closing", "closed"}

\* C17 witness: a scope that wrote, ended normally and has exited with
\* close() returned and the transport closed.
C17_Witness ==
    /\ cpc = "exited"
    /\ outcome = "returned"
    /\ closeReturned
    /\ wcalls # <<>>
    /\ transport = "closed"

\* --------------------------------------------------- chunking of the stream
\* What read_until gives for the last completed call when all the data it
\* started from is in the buffer at once, end-of-stream included.
Unsplit ==
    ReadUntilPass([op |-> "read_until", sep |-> rres.sep, count |-> 0,
                   start |-> rres.start, offset |-> 0],
                  LastUnread, TRUE)

\* C18 (as claimed): however the transport cuts the stream into chunks,
\* read_until ends as it does on the unsplit stream, and it returns the
\* message whenever the separator is there, however far from the cursor.
C18_ChunkIndependentAnySize ==
    rres.op = "read_until" =>
        /\ rres.kind = Unsplit.kind
        /\ rres.data = Unsplit.data
        /\ LastFirst # -1 => rres.kind = "ret"

\* What the code does for C18: the chunking makes no difference to how
\* read_until ends, but a message whose separator starts more than Limit
\* bytes from the cursor is refused in every chunking.
ChunkingDoesNotMatter ==
    rres.op = "read_until" =>
        /\ rres.kind = Unsplit.kind
        /\ rres.data = Unsplit.data
        /\ LastFirst > Limit => rres.kind = "LimitOverrun"

\* ------------------------------------------------------ memory-Reader claims
\* C19: reset() puts the cursor of the memory-backed Reader back at the start
\* of the data it is seeded with, whatever was read before: a read_exactly
\* of the length of the data right after it returns all the data, and a
\* readline made when all the data is consumed returns the empty byte
\* string.
C19_ResetRewinds ==
    /\ mres.op = "reset" => mcursor = 0
    /\ (mres.op = "read_exactly" /\ mres.after = "reset"
            /\ mres.count = Len(mdata))
        => (mres.kind = "ret" /\ mres.data = mdata /\ mcursor = Len(mdata))
    /\ (mres.op = "readline" /\ mres.start = Len(mdata))
        => (mres.kind = "ret" /\ mres.data = <<>>)

\* C19 witness: a Reader over three bytes that was read from, reset, read in
\* full by read_exactly(3) and then asked for a line, which came back empty.
C19_Witness ==
    /\ Len(mdata) = 3
    /\ mres.n = 4
    /\ mres.op = "readline"
    /\ mres.after = "read_exactly"
    /\ mres.start = 3
    /\ mres.kind = "ret"
    /\ mres.data = <<>>

\* ------------------------------------------------------------ request claims
NotJSON == [ok |-> FALSE, items |-> <<>>, next |-> 0]

RECURSIVE scanstring(_, _, _)
\* JSON's reading of a string literal of text, from the character at i (the
\* one after the opening quote) on, chars being the characters decoded so
\* far: up to the closing quote, each escape giving its character, a raw
\* control character being refused.
scanstring(text, i, chars) ==
    IF i > Len(text) THEN NotJSON
    ELSE IF text[i] = "\"" THEN [ok |-> TRUE, items |-> chars, next |-> i + 1]
    ELSE IF text[i] = NL THEN NotJSON
    ELSE IF text[i] # "\\" THEN scanstring(text, i + 1, Append(chars, text[i]))
    ELSE IF i + 1 > Len(text) THEN NotJSON
    ELSE IF text[i + 1] \in {"\"", "\\"}
    THEN scanstring(text, i + 2, Append(chars, text[i + 1]))
    ELSE IF text[i + 1] = "n" THEN scanstring(text, i + 2, Append(chars, NL))
    ELSE IF /\ text[i + 1] = "u"
            /\ i + 5 <= Len(text)
            /\ SubSeq(text, i + 2, i + 5) = <<"0", "0", "e", "9">>
    THEN scanstring(text, i + 6, Append(chars, EAcute))
    ELSE NotJSON

\* The index of the first character of text at or after i that is no space.
RECURSIVE SkipSpace(_, _)
SkipSpace(text, i) ==
    IF i <= Len(text) /\ text[i] = " " THEN SkipSpace(text, i + 1) ELSE i

RECURSIVE ScanStrings(_, _, _)
\* JSON's reading of the items of an array of strings, from the item at i on.
ScanStrings(text, i, items) ==
    LET j == SkipSpace(text, i)
    IN  IF j > Len(text) \/ text[j] # "\"" THEN NotJSON
        ELSE LET r == scanstring(text, j + 1, <<>>)
                 k == SkipSpace(text, r.next)
             IN  IF ~r.ok \/ k > Len(text) THEN NotJSON
                 ELSE IF text[k] = ","
                 THEN ScanStrings(text, k + 1, Append(items, r.items))
                 ELSE IF text[k] = "]" /\ k = Len(text)
                 THEN [ok |-> TRUE, items |-> Append(items, r.items),
                       next |-> k + 1]
                 ELSE NotJSON

\* The strings a text decodes to as a JSON array of strings (ok = FALSE when
\* it is not the JSON of one).
DecodeStrings(text) ==
    IF text # <<>> /\ text[1] = "[" THEN ScanStrings(text, 2, <<>>)
    ELSE NotJSON

\* The text decodes to the two-element array ["Query", query_text].
IsRequestFor(text, query_text) ==
    /\ DecodeStrings(text).ok
    /\ DecodeStrings(text).items = <<QueryChars, query_text>>

\* C20: the request execute_query makes of a query text, and what is written
\* on the connection, decode as JSON to exactly the two-element array whose
\* first element is "Query" and whose second is the query text.
C20_RequestIsEnvelope ==
    /\ qpc # "idle" => IsRequestFor(qrequest, qquery)
    /\ \A i \in 1..Len(qwritten) : IsRequestFor(qwritten[i], qquery)

\* C20 witness: the query text made of a double quote and U+00E9, sent as
\* ["Query", "\"é"].
C20_Witness ==
    /\ qquery = <<"\"", EAcute>>
    /\ qwritten = <<qrequest>>
    /\ qrequest = <<"[", "\"", "Q", "u", "e", "r", "y", "\"", ",", " ", "\"",
                    "\\", "\"", "\\", "u", "0", "0", "e", "9", "\"", "]">>

\* ------------------------------------------------- concurrent-connection claims
\* C21: with several tasks each driving a connection of its own, in every
\* interleaving of their steps, the reads of a task return the bytes of its
\* own connection's stream, in order (what it got is the prefix consumed from
\* its own stream while none of its calls failed); its connection's transport
\* was handed what it wrote and nothing else; and a connection is closing or
\* closed only when its own task closed it.
C21_OwnStreamOwnClose ==
    \A t \in Tasks :
        /\ task[t].ok => task[t].got = Take(chan[t].stream, ConsumedOf(t))
        /\ chan[t].out = task[t].wrote
        /\ chan[t].transport # "open" =>
               task[t].pc \in {"wait_closed", "exited"}

\* C21 witness: the first task has read all of its stream, written, closed
\* its connection and left, while the second, on a connection with another
\* stream, is suspended in a read with part of its stream read and its
\* connection open.
C21_Witness ==
    /\ task[1].pc = "exited"
    /\ task[1].got = chan[1].stream
    /\ task[1].wrote # <<>>
    /\ chan[1].transport = "closed"
    /\ chan[1].stream # chan[2].stream
    /\ task[2].pc = "in_read"
    /\ task[2].ok
    /\ task[2].got # <<>>
    /\ chan[2].transport = "open"

\* No step touches two connections or two tasks: whatever a task or a
\* transport does leaves every other task and connection as it was.
OneConnectionPerStep ==
    [][\E t \in Tasks : \A u \in Tasks \ {t} :
            chan'[u] = chan[u] /\ task'[u] = task[u]]_vars

\* ------------------------------------------------- query failure claims
\* C22: when a transport operation of an execute_query call fails (the
\* connect, the write or the read), what the call ends in is that very error;
\* and nothing is tried again: a failed connect leaves no connection opened
\* and nothing written or read, a failed write one connection and no write,
\* a failed read one connection, the one write and no read, the connection
\* then only being closed.
C22_TransportFailurePropagates ==
    qraised.at # "none" =>
        /\ qpc \in {"closing", "done"}
        /\ qresult.kind = qraised.e
        /\ qraw = <<>>
        /\ CASE qraised.at = "connect" -> qconns = 0 /\ qlog = <<>>
             [] qraised.at = "write" ->
                    /\ qconns = 1
                    /\ qlog \in {<<"open">>, <<"open", "close">>}
             [] qraised.at = "read" ->
                    /\ qconns = 1
                    /\ qwritten = <<qrequest>>
                    /\ qlog \in {<<"open", "write">>,
                                 <<"open", "write", "close">>}

\* C22 witness: a call whose read failed with ConnectionResetError and that
\* has ended in it, after one open, one write and the close.
C22_Witness ==
    /\ qpc = "done"
    /\ qraised = [at |-> "read", e |-> "ConnectionResetError"]
    /\ qresult.kind = "ConnectionResetError"
    /\ qlog = <<"open", "write", "close">>

\* C28: when an execute_query call has ended, in a Response, in
\* InvalidQueryResponse or in a transport failure, the connection it opened
\* (if the open succeeded) has been closed, once, as the last operation on
\* it; and the response is parsed only after the close.
C28_ClosedWhenDone ==
    /\ qpc = "done" =>
           IF qconns = 0 THEN qlog = <<>> /\ qraised.at = "connect"
           ELSE /\ qlog[Len(qlog)] = "close"
                /\ Count(qlog, "close") = 1
                /\ Count(qlog, "open") = 1
    /\ qresult.kind \in {"Response", "InvalidQueryResponse"} =>
           qlog = <<"open", "write", "read", "close">>

\* C28 witness: the peer answered {"not": "not"}; the call ended in
\* InvalidQueryResponse with its connection closed.
C28_Witness ==
    /\ qpc = "done"
    /\ qraw = <<"{", NotTok, ":", NotTok, "}">>
    /\ qresult.kind = "InvalidQueryResponse"
    /\ qlog = <<"open", "write", "read", "close">>

\* ------------------------------------------------- envelope-shape claims
\* The envelopes of exactly two elements, and those of three or more, and
\* their texts.
PairEnvelopes == {v \in Envelopes : Len(v.items) = 2}
LongEnvelopes == {v \in Envelopes : Len(v.items) > 2}
PairTexts == {Serialize(v) : v \in PairEnvelopes}
LongTexts == {Serialize(v) : v \in LongEnvelopes}

\* C23 (as claimed): a response is accepted only if it is the JSON of an
\* array of exactly two elements whose first is "Query"; every other text,
\* an array starting with "Query" that has three or more elements included,
\* fails with InvalidQueryResponse.
C23_AcceptsExactlyTwo ==
    pres.kind # "none" =>
        IF ptext \in PairTexts
        THEN pres.kind = "Response"
        ELSE pres.kind = "InvalidQueryResponse"

\* C23 (amended): the JSON of an array whose first element is "Query" is
\* accepted with two elements and with more, the payload being the second
\* element and the elements after it being ignored; JSON of any other
\* shape fails with InvalidQueryResponse "Unexpected JSON response", and
\* text that is not JSON with InvalidQueryResponse "Cannot parse response".
C23_AcceptsTwoOrMore ==
    pres.kind # "none" =>
        /\ ptext \in PairTexts =>
               /\ pres.kind = "Response"
               /\ \E v \in PairEnvelopes :
                      Serialize(v) = ptext /\ pres.payload = v.items[2]
        /\ ptext \in LongTexts =>
               /\ pres.kind = "Response"
               /\ \E v \in LongEnvelopes :
                      Serialize(v) = ptext /\ pres.payload = v.items[2]
        /\ ptext \in ValidTexts \ EnvelopeTexts =>
               /\ pres.kind = "InvalidQueryResponse"
               /\ pres.prefix = "Unexpected JSON response from server: "
        /\ ptext \notin ValidTexts =>
               /\ pres.kind = "InvalidQueryResponse"
               /\ pres.prefix = "Cannot parse response as JSON: "

\* C23 witness: the three-element array ["Query", 1, "not"], accepted with
\* the payload 1.
C23_Witness ==
    /\ psent = Arr(<<Str("Query"), Num, Str("not")>>)
    /\ ptext = <<"[", QueryTok, ",", "1", ",", NotTok, "]">>
    /\ pres.kind = "Response"
    /\ pres.payload = Num

EndedShort ==
    \/ rres.op \in {"read_until", "readline"} /\ LastFirst = -1
    \/ rres.op = "read_exactly" /\ rres.count > Len(LastUnread)

\* C24 (as claimed): when end-of-stream comes before the separator or the
\* count, TextReader.read_until and TextReader.read_exactly fail with
\* IncompleteRead, the partial data being all that was unread, and
\* TextReader.readline returns the text of all that was unread as a normal
\* result.
C24_TextAsymmetry ==
    (eof /\ EndedShort) =>
        IF rres.op = "readline"
        THEN /\ tres.kind = "ret"
             /\ encode(tres.text) = LastUnread
        ELSE /\ tres.kind = "IncompleteRead"
             /\ rres.data = LastUnread

\* What the code does for C24: the asymmetry is kept while the unread data
\* stays within the stream limit, the partial data of readline then going
\* through the strict decoder; beyond the limit all three calls fail with
\* LimitOverrunError (read_exactly, which has no limit, apart).
TextAsymmetryWithinLimit ==
    (eof /\ EndedShort) =>
        IF /\ rres.op # "read_exactly"
           /\ Len(LastUnread) + 1 - Len(rres.sep) > Limit
        THEN tres.kind = "LimitOverrun"
        ELSE IF rres.op = "readline"
        THEN /\ rres.kind = "ret"
             /\ rres.data = LastUnread
             /\ tres = decode(LastUnread)
        ELSE /\ tres.kind = "IncompleteRead"
             /\ rres.data = LastUnread

\* ------------------------------------------------- end-of-stream claims
\* C26: a read_until or read_exactly that fails with IncompleteRead has
\* consumed the partial bytes it carries, which are all that was unread: the
\* buffer is empty and the cursor at the end of the stream; and every call
\* after it gets no byte (none is returned twice), a readline returning the
\* empty byte string.
C26_PartialIsConsumed ==
    [][/\ rres'.kind = "IncompleteRead" =>
            /\ rres'.op \in {"read_until", "read_exactly"}
            /\ buffer' = <<>>
            /\ wire' = <<>>
            /\ rres'.data = Drop(stream', rres'.start)
       /\ rres.kind = "IncompleteRead" =>
            /\ rcall' = NoCall
            /\ rres'.start = Len(stream)
            /\ rres'.data = <<>>
            /\ rres'.op = "readline" => rres'.kind = "ret"
            /\ returned' = returned]_vars

\* C26 witness: three bytes were consumed by calls that failed, none of them
\* ever returned, and a readline made at the end of the stream returned the
\* empty byte string.
C26_Witness ==
    /\ Len(stream) = 3
    /\ eof
    /\ ~allok
    /\ returned = <<>>
    /\ rres.op = "readline"
    /\ rres.start = 3
    /\ rres.kind = "ret"
    /\ rres.data = <<>>

\* A step in which a read_exactly(0) call is made and completes.
ReadsZero ==
    /\ rcall = NoCall
    /\ rcall' = NoCall
    /\ rres' # rres
    /\ rres'.op = "read_exactly"
    /\ rres'.count = 0

C29_BodyErrorAfterClose ==
    /\ (pending \in BodyErrors /\ cpc = "wait_closed") => outcome = "none"
    /\ outcome \in BodyErrors =>
           /\ entered
           /\ cpc = "exited"
           /\ closeReturned
           /\ closeCalls = 1
           /\ transport = "closed"
           /\ outcome = pending
    /\ (pending \in BodyErrors /\ closeReturned) =>
           cpc = "exited" /\ outcome = pending

\* C29 witness: a scope whose body wrote and then raised
\* ConnectionResetError, left with that error after close() returned.
C29_Witness ==
    /\ cmode = "bytes"
    /\ wcalls # <<>>
    /\ pending = "ConnectionResetError"
    /\ closeReturned
    /\ transport = "closed"
    /\ cpc = "exited"
    /\ outcome = "ConnectionResetError"

\* ------------------------------------------------- text read_exactly claims
\* The places of the two-byte characters of a text.
Wide(text) == {i \in 1..Len(text) : text[i] = EAcute}

\* The bytes b are the encoding of a text.
IsEncoded(b) ==
    \E n \in 0..Len(b) : \E t \in [1..n -> TextChars \cup {"a"}] : encode(t) = b

\* A TextReader.read_exactly call has completed with its count bytes read,
\* on a channel that carries nothing but the echo of the texts written.
ReadExactlyOfText ==
    /\ rcall.op = "none"
    /\ tlast.op = "read_exactly"
    /\ rres.kind = "ret"
    /\ stream = EncodeAll(twritten)

\* C30 (as claimed): TextReader.read_exactly(count) takes exactly count
\* bytes of the stream and returns text: of count characters when every
\* character taken is one byte long, of fewer when the bytes hold a two-byte
\* character or, ending inside one, a part of it.
C30_ReadExactlyReturnsText ==
    ReadExactlyOfText =>
        /\ Consumed = rres.start + tlast.count
        /\ tres.kind = "ret"
        /\ Len(tres.text) <= tlast.count
        /\ (Len(tres.text) = tlast.count) <=>
               (\A i \in 1..Len(rres.data) : rres.data[i] \in {"a", NL})

\* What the code does for C30: the count is a count of bytes in every case.
\* When the bytes taken are whole characters the call returns their text,
\* which has count characters less one for every two-byte character; when
\* they end or begin inside a character the bytes are consumed all the same
\* and the call fails with UnicodeDecodeError.
ReadExactlyCountsBytes ==
    ReadExactlyOfText =>
        /\ Consumed = rres.start + tlast.count
        /\ rres.data = SubSeq(stream, rres.start + 1, rres.start + tlast.count)
        /\ IF IsEncoded(rres.data)
           THEN /\ tres.kind = "ret"
                /\ encode(tres.text) = rres.data
                /\ Len(tres.text) + Cardinality(Wide(tres.text)) = tlast.count
           ELSE tres.kind = "UnicodeDecodeError"

\* The texts of an e-acute and a newline, read by read_exactly(3): three
\* bytes, two characters.
ReadExactlyTwoCharacters ==
    /\ twritten = <<<<EAcute, NL>>>>
    /\ ReadExactlyOfText
    /\ tlast.count = 3
    /\ rres.start = 0
    /\ tres = [kind |-> "ret", text |-> <<EAcute, NL>>]

\* The same text, read by read_exactly(1): the byte taken is half a
\* character and the call fails in the decoder.
ReadExactlyInsideCharacter ==
    /\ twritten = <<<<EAcute, NL>>>>
    /\ ReadExactlyOfText
    /\ tlast.count = 1
    /\ rres.data = <<"C3">>
    /\ tres.kind = "UnicodeDecodeError"
    /\ Consumed = 1

====
